---- MODULE Spec2Model ----
(***************************************************************************)
(* Respiratory Sinus Arrhythmia pipeline of neurokit2 (hrv/hrv_rsa.py).    *)
(*                                                                         *)
(* The specifications share the variables below:                           *)
(*   Spec          one call of hrv_rsa (format, align, P2T, PB, Gates,     *)
(*                 merge)                                                  *)
(*   SpecP2T       one call of _hrv_rsa_p2t                                *)
(*   SpecGates     one call of _hrv_rsa_gates                              *)
(*   SpecPB        one call of _hrv_rsa_pb                                 *)
(*   SpecCycles    one call of _hrv_rsa_cycles                             *)
(*   SpecTime      one call of hrv_time (hrv/hrv_time.py)                  *)
(*   SpecMultipeak one call of _get_multipeak_window                       *)
(*   SpecEda       eda_intervalrelated (eda/eda_intervalrelated.py) on a   *)
(*                 table passed as a DataFrame, then as a dict entry       *)
(*                                                                         *)
(* Numbers are kept exact.  A float is a record [k, n, d]:                 *)
(*   k = "num"     the rational n / d                                      *)
(*   k = "nan"     NaN                                                     *)
(*   k = "neginf"  -inf (np.log(0))                                        *)
(*   k = "log"     ln(n / d), n / d > 0                                    *)
(*   k = "sqrt"    sqrt(n / d)                                             *)
(*   k = "opaque"  a finite float produced by the external signal utilities*)
(*   k = "inf"     +inf (a positive float divided by zero)                 *)
(*   k = "unmodelled" a statistic of hrv_time that is not computed here    *)
(* A python object is a record [type, d, len]: a dict (d: key -> float),   *)
(* an array / DataFrame column of len samples, a bare float NaN, or None.  *)
(*                                                                         *)
(* The signal utilities (signal_resample, signal_filter,                   *)
(* signal_interpolate, signal_timefrequency, _hrv_get_rri) are taken to    *)
(* succeed: signal_interpolate yields one value per requested sample, the  *)
(* others yield finite floats.  Exceptions modelled are those raised by    *)
(* the code of hrv_rsa.py itself (indexing, dict.update, DataFrame).       *)
(***************************************************************************)
EXTENDS Integers, Sequences, FiniteSets, TLC

VARIABLES
    pc,             \* position in the call
    ecg_form,       \* "frame": ecg_signals is a DataFrame; "tuple": (DataFrame, info)
    rsp,            \* respiration columns, one row per sample: Phase, Completion, Peak
    rpeaks,         \* R-peak sample indices, increasing
    sampling_rate,
    continuous,
    window,         \* <<>> for None, <<w>> for w seconds
    window_number,  \* <<>> for None, <<k>> for k
    rsp_onsets,     \* inspiration onsets
    rsp_peaks,      \* respiration peaks (aligned, in hrv_rsa)
    rsa_values,     \* per-cycle P2T values
    rsa_p2t,
    rsa_pb,
    rsa_gates,
    gates_run,      \* "no" (not reached), "run" or "skipped"
    multipeak_k,    \* window count handed to _get_multipeak_window, -1 before
    windows_used,   \* indices i of multipeak[:, i] summed into the power estimate
    rsa,            \* the value returned
    warnings,       \* NeuroKitWarning emitted
    error,          \* "none" or the exception that ended the call
    pb_epochs,      \* _hrv_rsa_pb: per 30-second epoch, the number of defined samples
    rsp_cycles,     \* the dictionary returned by _hrv_rsa_cycles
    peaks_key,      \* hrv_time: the key of the peaks dictionary
    hrv_out,        \* hrv_time: the dictionary returned
    mp_eigen,       \* _get_multipeak_window: the eigenvalues RD, in Schur order
    mp_out,         \* _get_multipeak_window: (multipeak, weight)
    eda_table,      \* eda_intervalrelated: rows of SCR_Peaks, SCR_Amplitude
    eda_frame,      \* eda_intervalrelated(table)
    eda_dict        \* eda_intervalrelated({label: table})

vars == <<pc, ecg_form, rsp, rpeaks, sampling_rate, continuous, window, window_number,
          rsp_onsets, rsp_peaks, rsa_values, rsa_p2t, rsa_pb, rsa_gates, gates_run,
          multipeak_k, windows_used, rsa, warnings, error,
          pb_epochs, rsp_cycles, peaks_key, hrv_out, mp_eigen, mp_out,
          eda_table, eda_frame, eda_dict>>

\* the variables of the specifications other than Spec, SpecP2T and SpecGates
aux == <<pb_epochs, rsp_cycles, peaks_key, hrv_out, mp_eigen, mp_out,
         eda_table, eda_frame, eda_dict>>

----------------------------------------------------------------------------
(* Bounds *)

\* samples of the recording in Spec and SpecGates (indices 0 .. SigLen - 1)
SigLen == 4
\* samples of the recording in SpecP2T
P2TLen == 5
\* largest caller-supplied window_number tried
MaxWindowNumber == 9

----------------------------------------------------------------------------
(* Floats and python objects *)

Nan == [k |-> "nan", n |-> 0, d |-> 1]
Num(n, d) == [k |-> "num", n |-> n, d |-> d]
Opaque == [k |-> "opaque", n |-> 0, d |-> 1]
IsNan(v) == v.k = "nan"

NoKeys == [x \in {} |-> Nan]
PyNone == [type |-> "None", d |-> NoKeys, len |-> 0]
PyNanFloat == [type |-> "float", d |-> NoKeys, len |-> 0]
PyDict(f) == [type |-> "dict", d |-> f, len |-> 0]
PyArray(l) == [type |-> "array", d |-> NoKeys, len |-> l]
PyFrame(cols, l) == [type |-> "frame", d |-> [c \in cols |-> Opaque], len |-> l]

None == <<>>
Some(x) == <<x>>

\* dict.update that keeps only the argument's keys
dict_update_replace(a, b) == b

\* dict.update
dict_update(a, b) == [key \in (DOMAIN a) \cup (DOMAIN b) |->
                         IF key \in DOMAIN b THEN b[key] ELSE a[key]]

Min2(a, b) == IF a <= b THEN a ELSE b
SetMin(S) == CHOOSE x \in S : \A y \in S : x <= y
SetMax(S) == CHOOSE x \in S : \A y \in S : x >= y

RECURSIVE SortedSeq(_)
\* the elements of a finite set of integers as an increasing array
SortedSeq(S) == IF S = {} THEN <<>>
                ELSE <<SetMin(S)>> \o SortedSeq(S \ {SetMin(S)})

Range(s) == {s[i] : i \in 1..Len(s)}

RECURSIVE SeqSum(_)
SeqSum(s) == IF s = <<>> THEN 0 ELSE Head(s) + SeqSum(Tail(s))

Abs(x) == IF x < 0 THEN -x ELSE x

RECURSIVE RemoveFirst(_, _)
\* a sequence without the first occurrence of x
RemoveFirst(s, x) == IF s = <<>> THEN <<>>
                     ELSE IF Head(s) = x THEN Tail(s)
                     ELSE <<Head(s)>> \o RemoveFirst(Tail(s), x)

RECURSIVE np_sort(_)
\* np.sort of integers
np_sort(s) == IF s = <<>> THEN <<>>
              ELSE LET m == SetMin(Range(s)) IN <<m>> \o np_sort(RemoveFirst(s, m))

\* np.diff
np_diff(s) == IF Len(s) < 2 THEN <<>> ELSE [i \in 1..(Len(s) - 1) |-> s[i + 1] - s[i]]

\* np.log of a float
np_log(v) == IF v.k = "nan" THEN Nan
             ELSE IF v.k = "num" /\ v.n = 0 THEN [k |-> "neginf", n |-> 0, d |-> 1]
             ELSE IF v.k = "num" /\ v.n > 0 THEN [k |-> "log", n |-> v.n, d |-> v.d]
             ELSE IF v.k = "opaque" THEN Opaque
             ELSE Nan

\* the entries that are not NaN
NotNan(values) == SelectSeq(values, LAMBDA v : ~IsNan(v))

\* a mean that counts the NaN entries as zeros
np_mean_nan_as_zero(values, den) ==
    LET ok == NotNan(values) IN
    IF Len(values) = 0 THEN Nan
    ELSE Num(SeqSum([i \in 1..Len(ok) |-> ok[i].n]), Len(values) * den)

\* np.nanmean of floats n/d sharing the denominator den
np_nanmean(values, den) ==
    LET ok == NotNan(values) IN
    IF Len(ok) = 0 THEN Nan
    ELSE Num(SeqSum([i \in 1..Len(ok) |-> ok[i].n]), Len(ok) * den)

\* np.nanstd(values, ddof=1) of floats n/d sharing the denominator den
np_nanstd_ddof1(values, den) ==
    LET ok == NotNan(values)
        cnt == Len(ok)
        s1 == SeqSum([i \in 1..cnt |-> ok[i].n])
        s2 == SeqSum([i \in 1..cnt |-> ok[i].n * ok[i].n])
    IN  IF cnt <= 1 THEN Nan
        ELSE [k |-> "sqrt", n |-> cnt * s2 - s1 * s1, d |-> cnt * (cnt - 1) * den * den]

----------------------------------------------------------------------------
(* _hrv_rsa_cycles *)

\* np.where(signals[column] == v)[0]: the 0-based indices of the rows holding v
where_phase(signals, v) == {j - 1 : j \in {i \in 1..Len(signals) : signals[i].Phase = v}}
where_completion(signals, v) ==
    {j - 1 : j \in {i \in 1..Len(signals) : signals[i].Completion = v}}
where_peaks(signals, v) == {j - 1 : j \in {i \in 1..Len(signals) : signals[i].Peak = v}}

\* a cycle extractor that takes every sample with PhaseCompletion = 0 as an
\* inspiration onset
hrv_rsa_cycles_any_phase(signals) ==
    LET inspiration_onsets == SortedSeq(where_completion(signals, 0))
        expiration_onsets ==
            SortedSeq(where_phase(signals, 0) \cap where_completion(signals, 0))
    IN  [RSP_Inspiration_Onsets |-> inspiration_onsets,
         RSP_Expiration_Onsets |-> expiration_onsets,
         RSP_Cycles_Length |-> np_diff(inspiration_onsets)]

hrv_rsa_cycles(signals) ==
    LET inspiration_onsets ==
            SortedSeq(where_phase(signals, 1) \cap where_completion(signals, 0))
        expiration_onsets ==
            SortedSeq(where_phase(signals, 0) \cap where_completion(signals, 0))
    IN  [RSP_Inspiration_Onsets |-> inspiration_onsets,
         RSP_Expiration_Onsets |-> expiration_onsets,
         RSP_Cycles_Length |-> np_diff(inspiration_onsets)]

----------------------------------------------------------------------------
(* _hrv_rsa_p2t *)

\* the R-peaks of each cycle with the end onset included: [onset_idx, onset_idx+1]
cycles_rri_inclusive_end(onsets, peaks) ==
    IF Len(onsets) < 2 THEN <<>>
    ELSE [idx \in 1..(Len(onsets) - 1) |->
            SelectSeq(peaks, LAMBDA r : r >= onsets[idx] /\ r <= onsets[idx + 1])]

\* the R-peaks of each cycle [onset_idx, onset_idx+1)
cycles_rri(onsets, peaks) ==
    IF Len(onsets) < 2 THEN <<>>
    ELSE [idx \in 1..(Len(onsets) - 1) |->
            SelectSeq(peaks, LAMBDA r : r >= onsets[idx] /\ r < onsets[idx + 1])]

\* the per-cycle estimate requiring more than two intervals
cycle_rsa_three_intervals(cycle, sr) ==
    LET RRis == np_diff(cycle) IN
    IF Len(RRis) > 2 THEN Num(SetMax(Range(RRis)) - SetMin(Range(RRis)), sr)
    ELSE Nan

\* the per-cycle estimate: RRis = np.diff(cycle) / sampling_rate, max - min
cycle_rsa(cycle, sr) ==
    LET RRis == np_diff(cycle) IN
    IF Len(RRis) > 1 THEN Num(SetMax(Range(RRis)) - SetMin(Range(RRis)), sr)
    ELSE Nan

p2t_values(onsets, peaks, sr) ==
    LET cycles == cycles_rri(onsets, peaks) IN
    IF Len(cycles) = 0 THEN <<>>
    ELSE [i \in 1..Len(cycles) |-> cycle_rsa(cycles[i], sr)]

\* the summary dictionary
p2t_summary(values, sr) ==
    LET mean == np_nanmean(values, sr) IN
    [key \in {"RSA_P2T_Mean", "RSA_P2T_Mean_log", "RSA_P2T_SD", "RSA_P2T_NoRSA"} |->
        CASE key = "RSA_P2T_Mean" -> mean
          [] key = "RSA_P2T_Mean_log" -> np_log(mean)
          [] key = "RSA_P2T_SD" -> np_nanstd_ddof1(values, sr)
          [] key = "RSA_P2T_NoRSA" -> Num(Len(values) - Len(NotNan(values)), 1)]

\* rsp_peaks[~np.isnan(rsa_values)]: a boolean mask must have the length of the array
MaskFits(array, mask) == Len(array) = Len(mask)

hrv_rsa_p2t(onsets, peaks, sr, cont, ecg_period_len, resp_peaks) ==
    LET values == p2t_values(onsets, peaks, sr) IN
    IF ~cont
    THEN [err |-> "none", values |-> values, val |-> PyDict(p2t_summary(values, sr))]
    ELSE IF MaskFits(resp_peaks, values)
    THEN [err |-> "none", values |-> values, val |-> PyArray(ecg_period_len)]
    ELSE [err |-> "IndexError", values |-> values, val |-> PyNone]

----------------------------------------------------------------------------
(* Inputs *)

Indices(n) == 0..(n - 1)
PeakSets(n) == SUBSET Indices(n)
SamplingRates == {1, 2}

\* a sample of the respiration columns: an inspiration onset, a respiration peak
\* (the expiration onset), or a sample inside a phase
RspRows == {[Phase |-> 1, Completion |-> 0, Peak |-> 0],
            [Phase |-> 0, Completion |-> 0, Peak |-> 1],
            [Phase |-> 1, Completion |-> 50, Peak |-> 0]}

\* the variables in aux before any call that uses them
AuxIdle ==
    /\ pb_epochs = <<>> /\ rsp_cycles = NoKeys /\ peaks_key = "" /\ hrv_out = PyNone
    /\ mp_eigen = <<>> /\ mp_out = PyNone
    /\ eda_table = <<>> /\ eda_frame = PyNone /\ eda_dict = PyNone

Unused ==
    /\ ecg_form = "frame" /\ rsp = <<>> /\ window = None /\ window_number = None
    /\ rsa_pb = PyNone /\ rsa_gates = PyNone /\ gates_run = "no"
    /\ multipeak_k = -1 /\ windows_used = <<>> /\ rsa = PyNone /\ warnings = {}

----------------------------------------------------------------------------
(* SpecP2T: one call of _hrv_rsa_p2t *)

InitP2T ==
    /\ pc = "p2t_call"
    /\ \E o \in PeakSets(P2TLen) : rsp_onsets = SortedSeq(o)
    /\ \E r \in PeakSets(P2TLen) : rpeaks = SortedSeq(r)
    /\ \E p \in {{}, {1}, {1, 2}} : rsp_peaks = SortedSeq(p)
    /\ sampling_rate \in SamplingRates
    /\ continuous \in BOOLEAN
    /\ rsa_values = <<>>
    /\ rsa_p2t = PyNone
    /\ error = "none"
    /\ Unused
    /\ AuxIdle

P2TCall ==
    /\ pc = "p2t_call"
    /\ LET res == hrv_rsa_p2t(rsp_onsets, rpeaks, sampling_rate, continuous, P2TLen, rsp_peaks)
       IN  /\ rsa_values' = res.values
           /\ rsa_p2t' = res.val
           /\ error' = res.err
           /\ pc' = IF res.err = "none" THEN "p2t_ret" ELSE "p2t_raised"
    /\ UNCHANGED aux
    /\ UNCHANGED <<ecg_form, rsp, rpeaks, sampling_rate, continuous, window, window_number,
                   rsp_onsets, rsp_peaks, rsa_pb, rsa_gates, gates_run, multipeak_k,
                   windows_used, rsa, warnings>>

NextP2T == P2TCall

SpecP2T == InitP2T /\ [][NextP2T]_vars

----------------------------------------------------------------------------
(* Program constants *)

\* window = 32 seconds when None
WindowDefault == 32
\* window_number = 8 when None
WindowNumberDefault == 8
\* desired_sampling_rate of the resampled RR series
DesiredSamplingRate == 4
\* for i in range(4)
GatesLoopCount == 4
\* len() of the (signals, info) tuple returned by ecg_process
TupleLen == 2

----------------------------------------------------------------------------
(* _get_multipeak_window: RD is the sequence of eigenvalues in the order of *)
(* the Schur decomposition, distinct and positive; the column F[:, j] is    *)
(* named by its index j (1-based).  The linear algebra is taken to succeed  *)
(* except for the Cholesky factorisation of a matrix whose diagonal is not  *)
(* positive.                                                                *)

\* 10 ** (K2 / 10) with K2 = 30
PenaltyGain == 1000

\* a[len(a) - 1 : 0 : -1]: from the last element down to, not including, the first
py_slice_reversed(a) ==
    IF Len(a) < 2 THEN <<>> ELSE [j \in 1..(Len(a) - 1) |-> a[Len(a) - j + 1]]

\* a[:k] for k >= 0
py_slice_first(a, k) == SubSeq(a, 1, Min2(k, Len(a)))

\* np.argsort of distinct integers
np_argsort(a) ==
    LET sorted == np_sort(a)
    IN  [i \in 1..Len(a) |-> CHOOSE j \in 1..Len(a) : a[j] = sorted[i]]

\* rpen[0] * nperseg, the diagonal of Rx: 10**(K2/10) - (10**(K2/10) - 1) * B
\* with B = (window_number + 2) / nperseg
rpen_diagonal(nperseg, wn) == PenaltyGain * nperseg - (PenaltyGain - 1) * (wn + 2)

\* the selection without the reversal of the sorted eigenvalues
get_multipeak_window_ascending(RD, wn) ==
    IF rpen_diagonal(Len(RD), wn) <= 0
    THEN [err |-> "LinAlgError", multipeak |-> <<>>, weight |-> <<>>]
    ELSE LET RDN == np_sort(RD)
             FN == np_argsort(RD)
             top == py_slice_first(RDN, wn)
         IN  [err |-> "none",
              multipeak |-> py_slice_first(FN, wn),
              weight |-> [j \in 1..Len(top) |-> Num(top[j], SeqSum(top))]]

get_multipeak_window(RD, wn) ==
    IF rpen_diagonal(Len(RD), wn) <= 0
    THEN [err |-> "LinAlgError", multipeak |-> <<>>, weight |-> <<>>]
    ELSE LET RDN == py_slice_reversed(np_sort(RD))
             FN == py_slice_reversed(np_argsort(RD))
             top == py_slice_first(RDN, wn)
         IN  [err |-> "none",
              multipeak |-> py_slice_first(FN, wn),
              weight |-> [j \in 1..Len(top) |-> Num(top[j], SeqSum(top))]]

----------------------------------------------------------------------------
(* _hrv_rsa_gates *)

\* the window count handed to _get_multipeak_window
gates_window_number(wn) == IF wn = None THEN WindowNumberDefault ELSE wn[1]

RECURSIVE gates_accumulate(_, _, _)
\* for i in range(4): psd with taper multipeak[:, i]; rsa = psd * weight[i] + rsa
gates_accumulate(i, ncols, used) ==
    IF i >= GatesLoopCount THEN [err |-> "none", used |-> used]
    ELSE IF i >= ncols THEN [err |-> "IndexError", used |-> used]
    ELSE gates_accumulate(i + 1, ncols, Append(used, i))

GatesKeys == {"RSA_Gates_Mean", "RSA_Gates_Mean_log", "RSA_Gates_SD"}

hrv_rsa_gates(ecg_signals_len, win, wn, cont) ==
    LET nperseg == win * DesiredSamplingRate
        k == gates_window_number(wn)
        mp == get_multipeak_window([i \in 1..nperseg |-> i], k)
        acc == IF mp.err # "none" THEN [err |-> mp.err, used |-> <<>>]
               ELSE gates_accumulate(0, Len(mp.multipeak), <<>>)
    IN  [err |-> acc.err,
         k |-> k,
         used |-> acc.used,
         val |-> IF acc.err # "none" THEN PyNone
                 ELSE IF ~cont THEN PyDict([key \in GatesKeys |-> Opaque])
                 ELSE PyArray(ecg_signals_len)]

----------------------------------------------------------------------------
(* _hrv_rsa_pb: epoch_logvars are the per-epoch np.log(var / 1000) *)

hrv_rsa_pb(epoch_logvars, cont) ==
    LET variance == NotNan(epoch_logvars) IN
    IF cont THEN [err |-> "none", val |-> PyNone]
    ELSE IF Len(variance) = 0 THEN [err |-> "ValueError", val |-> PyNone]
    ELSE [err |-> "none", val |-> PyDict([key \in {"RSA_PorgesBohrer"} |-> Opaque])]

----------------------------------------------------------------------------
(* hrv_rsa *)

\* len(ecg_signals) of the argument as the caller passed it
ecg_signals_len(form, n) == IF form = "tuple" THEN TupleLen ELSE n

\* the indices of the samples that are not respiration peaks
rsp_peak_indices_troughs(signals) == SortedSeq(where_peaks(signals, 0))

\* rsp_peaks = np.argwhere(signals["RSP_Peaks"].values == 1)[:, 0]
rsp_peak_indices(signals) == SortedSeq(where_peaks(signals, 1))

\* alignment that never drops the last peak
rsp_align_no_trim(onsets, peaks) ==
    LET after == SelectSeq(peaks, LAMBDA p : p > onsets[1])
    IN  [peaks |-> after, warn |-> Len(after) - Len(onsets) # -1]

\* alignment of the respiration peaks with the inspiration onsets
rsp_align(onsets, peaks) ==
    LET after == SelectSeq(peaks, LAMBDA p : p > onsets[1])
        trimmed == IF Len(after) - Len(onsets) = 0
                   THEN SubSeq(after, 1, Len(after) - 1)
                   ELSE after
    IN  [peaks |-> trimmed, warn |-> Len(trimmed) - Len(onsets) # -1]

window_seconds(win) == IF win = None THEN WindowDefault ELSE win[1]

\* input_duration > window
duration_sufficient_strict(peaks, sr, win) == peaks[Len(peaks)] > win * sr

\* input_duration = rpeaks[-1] / sampling_rate; input_duration >= window
duration_sufficient(peaks, sr, win) == peaks[Len(peaks)] >= win * sr

\* the summary dictionary, or the TypeError of dict.update on a float
merge_summary(p2t, pb, gates) ==
    IF gates.type # "dict" THEN [err |-> "TypeError", val |-> PyNone]
    ELSE [err |-> "none",
          val |-> PyDict(dict_update(dict_update(dict_update(NoKeys, p2t.d), pb.d), gates.d))]

\* pd.DataFrame({"RSA_P2T": rsa_p2t, "RSA_Gates": rsa_gates})
merge_continuous(p2t, gates) ==
    IF p2t.len # gates.len THEN [err |-> "ValueError", val |-> PyNone]
    ELSE [err |-> "none", val |-> PyFrame({"RSA_P2T", "RSA_Gates"}, p2t.len)]

Windows == {None, Some(2)}
WindowNumbers == {None, Some(4)}

Init ==
    /\ pc = "start"
    /\ ecg_form \in {"frame", "tuple"}
    /\ rsp \in [1..SigLen -> RspRows]
    /\ \E r \in PeakSets(SigLen) : rpeaks = SortedSeq(r)
    /\ sampling_rate \in SamplingRates
    /\ continuous \in BOOLEAN
    /\ window \in Windows
    /\ window_number \in WindowNumbers
    /\ rsp_onsets = <<>>
    /\ rsp_peaks = <<>>
    /\ rsa_values = <<>>
    /\ rsa_p2t = PyNone
    /\ rsa_pb = PyNone
    /\ rsa_gates = PyNone
    /\ gates_run = "no"
    /\ multipeak_k = -1
    /\ windows_used = <<>>
    /\ rsa = PyNone
    /\ warnings = {}
    /\ error = "none"
    /\ AuxIdle

\* lines 145-156: format the input, extract the cycles, align the peaks
Align ==
    /\ pc = "start"
    /\ LET onsets == hrv_rsa_cycles(rsp).RSP_Inspiration_Onsets
           peaks == rsp_peak_indices(rsp)
       IN  IF Len(onsets) = 0
           THEN /\ pc' = "raised"
                /\ error' = "IndexError"
                /\ rsp_onsets' = onsets
                /\ rsp_peaks' = peaks
                /\ UNCHANGED warnings
           ELSE LET al == rsp_align(onsets, peaks) IN
                /\ pc' = "aligned"
                /\ rsp_onsets' = onsets
                /\ rsp_peaks' = al.peaks
                /\ warnings' = IF al.warn THEN warnings \cup {"rsp_cycles"} ELSE warnings
                /\ UNCHANGED error
    /\ UNCHANGED aux
    /\ UNCHANGED <<ecg_form, rsp, rpeaks, sampling_rate, continuous, window, window_number,
                   rsa_values, rsa_p2t, rsa_pb, rsa_gates, gates_run, multipeak_k,
                   windows_used, rsa>>

\* lines 161-163
PeakToTrough ==
    /\ pc = "aligned"
    /\ LET res == hrv_rsa_p2t(rsp_onsets, rpeaks, sampling_rate, continuous, SigLen, rsp_peaks)
       IN  /\ rsa_values' = res.values
           /\ rsa_p2t' = res.val
           /\ error' = res.err
           /\ pc' = IF res.err = "none" THEN "p2t" ELSE "raised"
    /\ UNCHANGED aux
    /\ UNCHANGED <<ecg_form, rsp, rpeaks, sampling_rate, continuous, window, window_number,
                   rsp_onsets, rsp_peaks, rsa_pb, rsa_gates, gates_run, multipeak_k,
                   windows_used, rsa, warnings>>

\* line 165, on a heart-period series whose epochs are all defined
PorgesBohrer ==
    /\ pc = "p2t"
    /\ LET res == hrv_rsa_pb(<<Opaque>>, continuous)
       IN  /\ rsa_pb' = res.val
           /\ error' = res.err
           /\ pc' = IF res.err = "none" THEN "pb" ELSE "raised"
    /\ UNCHANGED aux
    /\ UNCHANGED <<ecg_form, rsp, rpeaks, sampling_rate, continuous, window, window_number,
                   rsp_onsets, rsp_peaks, rsa_values, rsa_p2t, rsa_gates, gates_run,
                   multipeak_k, windows_used, rsa, warnings>>

\* lines 168-190
Gates ==
    /\ pc = "pb"
    /\ LET win == window_seconds(window) IN
       IF Len(rpeaks) = 0
       THEN /\ pc' = "raised"
            /\ error' = "IndexError"
            /\ UNCHANGED <<rsa_gates, gates_run, multipeak_k, windows_used, warnings>>
       ELSE IF duration_sufficient(rpeaks, sampling_rate, win)
       THEN LET res == hrv_rsa_gates(ecg_signals_len(ecg_form, SigLen), win,
                                     window_number, continuous)
            IN  /\ gates_run' = "run"
                /\ multipeak_k' = res.k
                /\ windows_used' = res.used
                /\ rsa_gates' = res.val
                /\ error' = res.err
                /\ pc' = IF res.err = "none" THEN "gates" ELSE "raised"
                /\ UNCHANGED warnings
       ELSE /\ gates_run' = "skipped"
            /\ warnings' = warnings \cup {"short_recording"}
            /\ rsa_gates' = IF ~continuous THEN PyNanFloat ELSE PyArray(rsa_p2t.len)
            /\ pc' = "gates"
            /\ UNCHANGED <<multipeak_k, windows_used, error>>
    /\ UNCHANGED aux
    /\ UNCHANGED <<ecg_form, rsp, rpeaks, sampling_rate, continuous, window, window_number,
                   rsp_onsets, rsp_peaks, rsa_values, rsa_p2t, rsa_pb, rsa>>

\* lines 192-200
Merge ==
    /\ pc = "gates"
    /\ LET res == IF ~continuous THEN merge_summary(rsa_p2t, rsa_pb, rsa_gates)
                  ELSE merge_continuous(rsa_p2t, rsa_gates)
       IN  /\ rsa' = res.val
           /\ error' = res.err
           /\ pc' = IF res.err = "none" THEN "done" ELSE "raised"
    /\ UNCHANGED aux
    /\ UNCHANGED <<ecg_form, rsp, rpeaks, sampling_rate, continuous, window, window_number,
                   rsp_onsets, rsp_peaks, rsa_values, rsa_p2t, rsa_pb, rsa_gates, gates_run,
                   multipeak_k, windows_used, warnings>>

Next == Align \/ PeakToTrough \/ PorgesBohrer \/ Gates \/ Merge

Spec == Init /\ [][Next]_vars

----------------------------------------------------------------------------
(* SpecGates: one call of _hrv_rsa_gates *)

InitGates ==
    /\ pc = "gates_call"
    /\ ecg_form \in {"frame", "tuple"}
    /\ \E r \in PeakSets(SigLen) \ {{}} : rpeaks = SortedSeq(r)
    /\ sampling_rate \in SamplingRates
    /\ continuous \in BOOLEAN
    /\ window \in {Some(1), Some(2), Some(3)}
    /\ window_number \in {None} \cup {Some(k) : k \in 0..MaxWindowNumber}
    /\ rsp = <<>> /\ rsp_onsets = <<>> /\ rsp_peaks = <<>> /\ rsa_values = <<>>
    /\ rsa_p2t = PyNone /\ rsa_pb = PyNone /\ rsa_gates = PyNone
    /\ gates_run = "no" /\ multipeak_k = -1 /\ windows_used = <<>>
    /\ rsa = PyNone /\ warnings = {} /\ error = "none"
    /\ AuxIdle

GatesCall ==
    /\ pc = "gates_call"
    /\ LET res == hrv_rsa_gates(ecg_signals_len(ecg_form, SigLen), window[1],
                                window_number, continuous)
       IN  /\ gates_run' = "run"
           /\ multipeak_k' = res.k
           /\ windows_used' = res.used
           /\ rsa_gates' = res.val
           /\ error' = res.err
           /\ pc' = IF res.err = "none" THEN "gates_ret" ELSE "gates_raised"
    /\ UNCHANGED aux
    /\ UNCHANGED <<ecg_form, rsp, rpeaks, sampling_rate, continuous, window, window_number,
                   rsp_onsets, rsp_peaks, rsa_values, rsa_p2t, rsa_pb, rsa, warnings>>

NextGates == GatesCall

SpecGates == InitGates /\ [][NextGates]_vars

----------------------------------------------------------------------------
(* Properties of hrv_rsa (Spec) *)

SummaryKeys == {"RSA_P2T_Mean", "RSA_P2T_Mean_log", "RSA_P2T_SD", "RSA_P2T_NoRSA",
                "RSA_PorgesBohrer", "RSA_Gates_Mean", "RSA_Gates_Mean_log", "RSA_Gates_SD"}

CycleWarning == "rsp_cycles" \in warnings

\* C1: when the recording is shorter than the Gates window the call does not fail: it
\* warns and returns, with the Gates keys undefined in summary mode and an RSA_Gates
\* column in continuous mode.
C1_ShortRecordingReturns ==
    gates_run = "skipped" =>
        /\ "short_recording" \in warnings
        /\ pc # "raised"
        /\ (pc = "done" /\ ~continuous) =>
               /\ rsa.type = "dict"
               /\ GatesKeys \subseteq DOMAIN rsa.d
               /\ \A key \in GatesKeys : IsNan(rsa.d[key])
        /\ (pc = "done" /\ continuous) =>
               /\ rsa.type = "frame"
               /\ "RSA_Gates" \in DOMAIN rsa.d

C3_ContinuousLengths ==
    (continuous /\ rsa_gates.type = "array" /\ Len(NotNan(rsa_values)) >= 1) =>
        /\ rsa_p2t.len = SigLen
        /\ rsa_gates.len = SigLen
        /\ pc # "raised"
        /\ pc = "done" => rsa.len = SigLen

PeaksAfterFirstOnset ==
    Cardinality({i \in 1..Len(rsp) : rsp[i].Peak = 1 /\ i - 1 > rsp_onsets[1]})

PeakOnsetDifference == PeaksAfterFirstOnset - Len(rsp_onsets)

AlignmentDone == pc # "start" /\ Len(rsp_onsets) > 0

\* C8 as claimed: the cycle-mismatch warning is emitted iff the two counts differ by more
\* than one.
C8_WarnIffDifferByMoreThanOne ==
    AlignmentDone =>
        (CycleWarning <=> (PeakOnsetDifference > 1 \/ PeakOnsetDifference < -1))

\* C8: the cycle-mismatch warning is emitted iff the number of respiration peaks after the
\* first inspiration onset is neither equal to the number of onsets nor one less.
C8_WarnUnlessEqualOrOneLess ==
    AlignmentDone =>
        (CycleWarning <=> ~(PeakOnsetDifference = 0 \/ PeakOnsetDifference = -1))

C8_Witness ==
    AlignmentDone /\ PeakOnsetDifference = 1 /\ CycleWarning

\* C9: when the cycle-mismatch warning is emitted the call is not aborted.
C9_WarningIsNotFatal == CycleWarning => pc # "raised"

----------------------------------------------------------------------------
(* Properties of _hrv_rsa_gates (SpecGates) *)

GatesFinished == pc \in {"gates_ret", "gates_raised"}

\* C5: for every window count K in [2,8] of a K-window set, the power estimate sums the
\* spectrograms of exactly the windows 0 .. K-1.
C5_AllWindowsSummed ==
    (/\ GatesFinished
     /\ multipeak_k \in 2..8
     /\ window[1] * DesiredSamplingRate >= multipeak_k + 2) =>
        /\ pc = "gates_ret"
        /\ windows_used = [i \in 1..multipeak_k |-> i - 1]

\* C6: the window count handed to the Multipeak Window Generator lies in [2,8], and is 8
\* when window_number is None.
C6_WindowCountInRange ==
    GatesFinished =>
        /\ multipeak_k \in 2..8
        /\ window_number = None => multipeak_k = 8

----------------------------------------------------------------------------
(* Properties of _hrv_rsa_p2t (SpecP2T) *)

NCycles == IF Len(rsp_onsets) = 0 THEN 0 ELSE Len(rsp_onsets) - 1

\* R-peaks inside the cycle [onset_i, onset_i+1)
BeatsIn(i) ==
    Cardinality({r \in Range(rpeaks) : r >= rsp_onsets[i] /\ r < rsp_onsets[i + 1]})

P2TSummaryDone == pc = "p2t_ret" /\ ~continuous

\* C7 as claimed: if every cycle contains at least 2 beats then RSA_P2T_NoRSA = 0.
C7_TwoBeatsNoRSAZero ==
    (P2TSummaryDone /\ \A i \in 1..NCycles : BeatsIn(i) >= 2) =>
        rsa_p2t.d["RSA_P2T_NoRSA"] = Num(0, 1)

\* C7: if every cycle contains at least 3 beats (2 inter-beat intervals) then
\* RSA_P2T_NoRSA = 0.
C7_ThreeBeatsNoRSAZero ==
    (P2TSummaryDone /\ \A i \in 1..NCycles : BeatsIn(i) >= 3) =>
        rsa_p2t.d["RSA_P2T_NoRSA"] = Num(0, 1)

C7_Witness ==
    /\ P2TSummaryDone
    /\ NCycles >= 1
    /\ \A i \in 1..NCycles : BeatsIn(i) >= 3
    /\ rsa_p2t.d["RSA_P2T_NoRSA"] = Num(0, 1)

DefinedCycles == Len(NotNan(rsa_values))

\* C10 as claimed: with fewer than 2 defined cycle values RSA_P2T_Mean_log is NaN.
C10_FewerThanTwoMeanLogNan ==
    (P2TSummaryDone /\ DefinedCycles < 2) => IsNan(rsa_p2t.d["RSA_P2T_Mean_log"])

\* C10: summary mode never raises, and with no defined cycle value RSA_P2T_Mean_log is
\* NaN.
C10_NoneDefinedMeanLogNan ==
    (~continuous /\ pc # "p2t_call") =>
        /\ pc = "p2t_ret"
        /\ error = "none"
        /\ DefinedCycles = 0 => IsNan(rsa_p2t.d["RSA_P2T_Mean_log"])

C10_Witness ==
    /\ P2TSummaryDone
    /\ NCycles >= 1
    /\ DefinedCycles = 0
    /\ IsNan(rsa_p2t.d["RSA_P2T_Mean_log"])

----------------------------------------------------------------------------
(* SpecPB: one call of _hrv_rsa_pb.  The filtered 2 Hz series is described *)
(* by its 30-second epochs, each by the number of its samples that are     *)
(* defined.                                                                *)

\* largest number of 30-second epochs of the recording
MaxEpochs == 3
\* largest number of defined samples told apart in an epoch
MaxDefined == 2

\* np.log(epoch.var(axis=0) / 1000): the sample variance needs 2 defined samples
epoch_log_variance(defined) == IF defined < 2 THEN Nan ELSE Opaque

EpochSeqs == UNION {[1..l -> 0..MaxDefined] : l \in 1..MaxEpochs}

InitPB ==
    /\ pc = "pb_call"
    /\ pb_epochs \in EpochSeqs
    /\ sampling_rate \in SamplingRates
    /\ continuous \in BOOLEAN
    /\ rpeaks = <<>> /\ rsp_onsets = <<>> /\ rsp_peaks = <<>> /\ rsa_values = <<>>
    /\ rsa_p2t = PyNone
    /\ error = "none"
    /\ Unused
    /\ rsp_cycles = NoKeys /\ peaks_key = "" /\ hrv_out = PyNone
    /\ mp_eigen = <<>> /\ mp_out = PyNone
    /\ eda_table = <<>> /\ eda_frame = PyNone /\ eda_dict = PyNone

PBCall ==
    /\ pc = "pb_call"
    /\ LET res == hrv_rsa_pb([i \in 1..Len(pb_epochs) |-> epoch_log_variance(pb_epochs[i])],
                             continuous)
       IN  /\ rsa_pb' = res.val
           /\ error' = res.err
           /\ pc' = IF res.err = "none" THEN "pb_ret" ELSE "pb_raised"
    /\ UNCHANGED aux
    /\ UNCHANGED <<ecg_form, rsp, rpeaks, sampling_rate, continuous, window, window_number,
                   rsp_onsets, rsp_peaks, rsa_values, rsa_p2t, rsa_gates, gates_run,
                   multipeak_k, windows_used, rsa, warnings>>

NextPB == PBCall

SpecPB == InitPB /\ [][NextPB]_vars

\* C11: when every 30-second epoch is discarded, the summary call returns with
\* RSA_PorgesBohrer undefined (NaN) instead of raising.
C11_AllDiscardedReturnsNan ==
    (/\ pc \in {"pb_ret", "pb_raised"}
     /\ ~continuous
     /\ \A i \in 1..Len(pb_epochs) : IsNan(epoch_log_variance(pb_epochs[i]))) =>
        /\ pc = "pb_ret"
        /\ rsa_pb.type = "dict"
        /\ IsNan(rsa_pb.d["RSA_PorgesBohrer"])

----------------------------------------------------------------------------
(* SpecCycles: one call of _hrv_rsa_cycles *)

\* samples of the respiration phase signal
CyclesLen == 5

\* Phase is 0 or 1; PhaseCompletion is 0 at the start of a phase and above 0 inside it
PhaseRows == {[Phase |-> ph, Completion |-> c, Peak |-> 0] : ph \in {0, 1}, c \in {0, 50}}

InitCycles ==
    /\ pc = "cycles_call"
    /\ rsp \in UNION {[1..l -> PhaseRows] : l \in 0..CyclesLen}
    /\ ecg_form = "frame" /\ window = None /\ window_number = None
    /\ rpeaks = <<>> /\ sampling_rate = 1 /\ continuous = FALSE
    /\ rsp_onsets = <<>> /\ rsp_peaks = <<>> /\ rsa_values = <<>>
    /\ rsa_p2t = PyNone /\ rsa_pb = PyNone /\ rsa_gates = PyNone /\ gates_run = "no"
    /\ multipeak_k = -1 /\ windows_used = <<>> /\ rsa = PyNone /\ warnings = {}
    /\ error = "none"
    /\ AuxIdle

CyclesCall ==
    /\ pc = "cycles_call"
    /\ rsp_cycles' = hrv_rsa_cycles(rsp)
    /\ pc' = "cycles_ret"
    /\ UNCHANGED <<pb_epochs, peaks_key, hrv_out, mp_eigen, mp_out,
                   eda_table, eda_frame, eda_dict>>
    /\ UNCHANGED <<ecg_form, rsp, rpeaks, sampling_rate, continuous, window, window_number,
                   rsp_onsets, rsp_peaks, rsa_values, rsa_p2t, rsa_pb, rsa_gates, gates_run,
                   multipeak_k, windows_used, rsa, warnings, error>>

NextCycles == CyclesCall

SpecCycles == InitCycles /\ [][NextCycles]_vars

\* the sample indices where Phase = 1 and PhaseCompletion = 0
InspirationStarts ==
    {i - 1 : i \in {j \in 1..Len(rsp) : rsp[j].Phase = 1 /\ rsp[j].Completion = 0}}

\* C12: the Cycle Extractor returns as inspiration onsets exactly the indices where
\* Phase = 1 and PhaseCompletion = 0, strictly increasing, and a cycle-length sequence of
\* length max(onsets - 1, 0) of positive integers (the differences of consecutive onsets);
\* no error is raised, also with zero or one onset.
C12_CycleExtractor ==
    pc # "cycles_call" =>
        /\ pc = "cycles_ret"
        /\ error = "none"
        /\ LET on == rsp_cycles.RSP_Inspiration_Onsets
               cl == rsp_cycles.RSP_Cycles_Length
           IN  /\ Range(on) = InspirationStarts
               /\ \A i \in 1..Len(on) : \A j \in 1..Len(on) : i < j => on[i] < on[j]
               /\ Len(cl) = (IF Len(on) = 0 THEN 0 ELSE Len(on) - 1)
               /\ \A k \in 1..Len(cl) : cl[k] > 0 /\ cl[k] = on[k + 1] - on[k]

C12_Witness ==
    /\ pc = "cycles_ret"
    /\ Len(rsp_cycles.RSP_Inspiration_Onsets) = 3
    /\ Cardinality(InspirationStarts) = 3
    /\ Cardinality(Range(rsp_cycles.RSP_Cycles_Length)) = 2
    /\ \E i \in 1..Len(rsp) : rsp[i].Phase = 0 /\ rsp[i].Completion = 0

----------------------------------------------------------------------------
(* Per-cycle values of _hrv_rsa_p2t (SpecP2T) *)

\* the R-peaks inside the cycle [onset_i, onset_i+1)
CycleBeats(i) == {r \in Range(rpeaks) : r >= rsp_onsets[i] /\ r < rsp_onsets[i + 1]}

\* the successive inter-beat intervals, in samples, of a set of R-peaks
Gaps(B) == {b - a : <<a, b>> \in {ab \in B \X B :
                      ab[1] < ab[2] /\ ~\E c \in B : ab[1] < c /\ c < ab[2]}}

\* C13: every per-cycle value is undefined or >= 0: undefined exactly when the cycle has
\* fewer than 2 successive inter-beat intervals (fewer than 3 R-peaks), and otherwise the
\* largest minus the smallest inter-beat interval of the R-peaks inside the cycle.
C13_CycleValues ==
    pc # "p2t_call" =>
        /\ Len(rsa_values) = NCycles
        /\ \A i \in 1..NCycles :
              LET B == CycleBeats(i) IN
              IF Cardinality(B) < 3
              THEN IsNan(rsa_values[i])
              ELSE /\ rsa_values[i] = Num(SetMax(Gaps(B)) - SetMin(Gaps(B)), sampling_rate)
                   /\ rsa_values[i].n >= 0

C13_Witness ==
    /\ pc = "p2t_ret"
    /\ NCycles >= 1
    /\ \E i \in 1..NCycles :
          /\ Cardinality(CycleBeats(i)) >= 3
          /\ rsa_values[i].k = "num"
          /\ rsa_values[i].n > 0

----------------------------------------------------------------------------
(* SpecTime: one call of hrv_time.  Heart periods are kept as integers over *)
(* the common denominator sampling_rate: 1000 * interval / sampling_rate.   *)

\* samples of the recording in SpecTime
TimeLen == 6

\* milliseconds per second
MsPerSecond == 1000
\* thresholds of pNN50 and pNN20, in ms
NN50 == 50
NN20 == 20
\* percent
Percent == 100

\* a float of hrv_time that is not computed here
Unmodelled == [k |-> "unmodelled", n |-> 0, d |-> 1]

\* np.median of the integers s over the denominator den
np_median(s, den) ==
    LET sorted == np_sort(s)
        cnt == Len(s)
    IN  IF cnt = 0 THEN Nan
        ELSE IF cnt % 2 = 1 THEN Num(sorted[(cnt + 1) \div 2], den)
        ELSE Num(sorted[cnt \div 2] + sorted[cnt \div 2 + 1], 2 * den)

\* np.mean of the integers s over the denominator den
np_mean(s, den) == IF Len(s) = 0 THEN Nan ELSE Num(SeqSum(s), Len(s) * den)

np_abs(s) == [i \in 1..Len(s) |-> Abs(s[i])]

\* np.sum(np.abs(s) > threshold), with s over the denominator den
count_above(s, den, threshold) ==
    Cardinality({i \in 1..Len(s) : Abs(s[i]) > threshold * den})

\* np.diff(peaks) / sampling_rate * 1000, as numerators over sampling_rate
heart_period_of(peaks) ==
    LET gaps == np_diff(peaks) IN [i \in 1..Len(gaps) |-> gaps[i] * MsPerSecond]

TimeKeys == {"RMSSD", "MeanNN", "SDNN", "SDSD", "CVNN", "CVSD", "MedianNN", "MadNN",
             "MCVNN", "pNN50", "pNN20", "TINN", "HTI"}

hrv_time(key, peaks, sr) ==
    IF key \notin {"ECG_R_Peaks", "PPG_Peaks"}
    THEN [err |-> "ValueError", val |-> PyNone]
    ELSE LET heart_period == heart_period_of(peaks)
             diff_period == np_diff(heart_period)
         IN  [err |-> "none",
              val |-> PyDict([name \in TimeKeys |->
                  CASE name = "MeanNN" -> np_mean(heart_period, sr)
                    [] name = "MedianNN" -> np_median(np_abs(heart_period), sr)
                    [] name = "pNN50" ->
                         Num(count_above(diff_period, sr, NN50) * Percent, Len(heart_period))
                    [] name = "pNN20" ->
                         Num(count_above(diff_period, sr, NN20) * Percent, Len(heart_period))
                    [] OTHER -> Unmodelled])]

InitTime ==
    /\ pc = "time_call"
    /\ peaks_key \in {"ECG_R_Peaks", "PPG_Peaks", "RSP_Peaks"}
    /\ \E r \in {x \in PeakSets(TimeLen) : Cardinality(x) >= 2} : rpeaks = SortedSeq(r)
    /\ sampling_rate \in SamplingRates
    /\ continuous = FALSE
    /\ rsp_onsets = <<>> /\ rsp_peaks = <<>> /\ rsa_values = <<>>
    /\ rsa_p2t = PyNone
    /\ error = "none"
    /\ Unused
    /\ pb_epochs = <<>> /\ rsp_cycles = NoKeys /\ hrv_out = PyNone
    /\ mp_eigen = <<>> /\ mp_out = PyNone
    /\ eda_table = <<>> /\ eda_frame = PyNone /\ eda_dict = PyNone

TimeCall ==
    /\ pc = "time_call"
    /\ LET res == hrv_time(peaks_key, rpeaks, sampling_rate)
       IN  /\ hrv_out' = res.val
           /\ error' = res.err
           /\ pc' = IF res.err = "none" THEN "time_ret" ELSE "time_raised"
    /\ UNCHANGED <<pb_epochs, rsp_cycles, peaks_key, mp_eigen, mp_out,
                   eda_table, eda_frame, eda_dict>>
    /\ UNCHANGED <<ecg_form, rsp, rpeaks, sampling_rate, continuous, window, window_number,
                   rsp_onsets, rsp_peaks, rsa_values, rsa_p2t, rsa_pb, rsa_gates, gates_run,
                   multipeak_k, windows_used, rsa, warnings>>

NextTime == TimeCall

SpecTime == InitTime /\ [][NextTime]_vars

\* equality of two floats n / d
SameNumber(a, b) == a.k = "num" /\ b.k = "num" /\ a.n * b.d = b.n * a.d

\* the absolute successive differences between the RR intervals, over sampling_rate
AbsSuccessiveDifferences ==
    LET rr == [i \in 1..(Len(rpeaks) - 1) |-> (rpeaks[i + 1] - rpeaks[i]) * MsPerSecond]
    IN  [i \in 1..(Len(rr) - 1) |-> Abs(rr[i + 1] - rr[i])]

\* C14: for at least three peaks, MedianNN is the median of the absolute values of the
\* successive differences between RR intervals.
C14_MedianOfSuccessiveDifferences ==
    (pc = "time_ret" /\ Len(rpeaks) >= 3) =>
        SameNumber(hrv_out.d["MedianNN"], np_median(AbsSuccessiveDifferences, sampling_rate))

----------------------------------------------------------------------------
(* SpecMultipeak: one call of _get_multipeak_window.  The segment length   *)
(* nperseg is the number of eigenvalues; the eigenvalues are 1 .. nperseg  *)
(* in the order the Schur decomposition happens to give them.              *)

\* largest segment length
MaxSeg == 11
\* largest segment length whose eigenvalue orders are all enumerated
MaxPermSeg == 4

EigenPermutations(n) == {f \in [1..n -> 1..n] : \A i, j \in 1..n : f[i] = f[j] => i = j}

Rotations(n) == {[i \in 1..n |-> ((i + s - 1) % n) + 1] : s \in 0..(n - 1)}

EigenOrders(n) == IF n <= MaxPermSeg THEN EigenPermutations(n) ELSE Rotations(n)

InitMultipeak ==
    /\ pc = "mp_call"
    /\ \E n \in 1..MaxSeg : mp_eigen \in EigenOrders(n)
    /\ \E k \in 0..MaxWindowNumber : window_number = Some(k)
    /\ mp_out = PyNone
    /\ ecg_form = "frame" /\ rsp = <<>> /\ rpeaks = <<>> /\ sampling_rate = 1
    /\ continuous = FALSE /\ window = None
    /\ rsp_onsets = <<>> /\ rsp_peaks = <<>> /\ rsa_values = <<>>
    /\ rsa_p2t = PyNone /\ rsa_pb = PyNone /\ rsa_gates = PyNone
    /\ gates_run = "no" /\ multipeak_k = -1 /\ windows_used = <<>>
    /\ rsa = PyNone /\ warnings = {} /\ error = "none"
    /\ pb_epochs = <<>> /\ rsp_cycles = NoKeys /\ peaks_key = "" /\ hrv_out = PyNone
    /\ eda_table = <<>> /\ eda_frame = PyNone /\ eda_dict = PyNone

MultipeakCall ==
    /\ pc = "mp_call"
    /\ LET res == get_multipeak_window(mp_eigen, window_number[1])
       IN  /\ mp_out' = IF res.err = "none"
                        THEN [multipeak |-> res.multipeak, weight |-> res.weight]
                        ELSE PyNone
           /\ error' = res.err
           /\ pc' = IF res.err = "none" THEN "mp_ret" ELSE "mp_raised"
    /\ UNCHANGED <<pb_epochs, rsp_cycles, peaks_key, hrv_out, mp_eigen,
                   eda_table, eda_frame, eda_dict>>
    /\ UNCHANGED <<ecg_form, rsp, rpeaks, sampling_rate, continuous, window, window_number,
                   rsp_onsets, rsp_peaks, rsa_values, rsa_p2t, rsa_pb, rsa_gates, gates_run,
                   multipeak_k, windows_used, rsa, warnings>>

NextMultipeak == MultipeakCall

SpecMultipeak == InitMultipeak /\ [][NextMultipeak]_vars

MultipeakFinished == pc \in {"mp_ret", "mp_raised"}

\* the j-th largest eigenvalue
Largest(j) ==
    CHOOSE v \in Range(mp_eigen) : Cardinality({w \in Range(mp_eigen) : w > v}) = j - 1

\* the sum of the k largest eigenvalues
TopSum(k) == SeqSum([j \in 1..k |-> Largest(j)])

\* K columns and K weights: the eigenvectors of the K largest eigenvalues in descending
\* order, and those eigenvalues divided by their sum
TopWindows(k) ==
    /\ pc = "mp_ret"
    /\ Len(mp_out.multipeak) = k
    /\ Len(mp_out.weight) = k
    /\ \A j \in 1..k :
         /\ mp_eigen[mp_out.multipeak[j]] = Largest(j)
         /\ mp_out.weight[j] = Num(Largest(j), TopSum(k))
    /\ SeqSum([j \in 1..k |-> mp_out.weight[j].n]) = TopSum(k)

\* C15 as claimed: for every segment length N and window count K in [2,8] the generator
\* returns the K top eigenvectors and the K normalised top eigenvalues.
C15_TopWindowsForEverySegment ==
    (MultipeakFinished /\ window_number[1] \in 2..8) => TopWindows(window_number[1])

\* C15: for every window count K in [2,8] and every segment length N >= K + 2, the
\* generator returns exactly K columns and K weights: the eigenvectors of the K largest
\* eigenvalues in descending eigenvalue order, and those eigenvalues divided by their sum.
C15_TopWindowsForLongSegment ==
    (/\ MultipeakFinished
     /\ window_number[1] \in 2..8
     /\ Len(mp_eigen) >= window_number[1] + 2) => TopWindows(window_number[1])

C15_Witness ==
    /\ pc = "mp_ret"
    /\ window_number[1] \in 2..8
    /\ Len(mp_eigen) >= window_number[1] + 2
    /\ mp_eigen[1] # 1
    /\ mp_eigen[1] # Len(mp_eigen)

----------------------------------------------------------------------------
(* Alignment of strictly alternating onsets and peaks (Spec) *)

\* the inspiration onsets and respiration peaks of the signal, in signal order
RspEvents ==
    SelectSeq(rsp, LAMBDA row : row.Peak = 1 \/ (row.Phase = 1 /\ row.Completion = 0))

\* no two consecutive events are of the same kind
Alternating ==
    \A i \in 1..(Len(RspEvents) - 1) : RspEvents[i].Peak # RspEvents[i + 1].Peak

\* C16: when inspiration onsets and respiration peaks strictly alternate (and there is an
\* onset to align with), the alignment emits no mismatch warning and leaves exactly
\* onsets - 1 peaks, the i-th retained peak lying strictly between the i-th and the
\* (i+1)-th inspiration onset; the per-cycle P2T values are as many as the retained peaks.
C16_AlternatingAligned ==
    (AlignmentDone /\ Alternating) =>
        /\ ~CycleWarning
        /\ Len(rsp_peaks) = Len(rsp_onsets) - 1
        /\ \A i \in 1..Len(rsp_peaks) :
             rsp_onsets[i] < rsp_peaks[i] /\ rsp_peaks[i] < rsp_onsets[i + 1]
        /\ pc \in {"p2t", "pb", "gates", "done"} => Len(rsa_values) = Len(rsp_peaks)

C16_Witness ==
    /\ pc \in {"p2t", "pb", "gates", "done"}
    /\ Alternating
    /\ Len(rsp_onsets) = 2
    /\ rsp[Len(rsp)].Peak = 1
    /\ Len(rsp_peaks) = 1

----------------------------------------------------------------------------
(* SpecEda: eda_intervalrelated on one interval table, passed as a          *)
(* DataFrame and then as the single entry of a dict.  A table is a record   *)
(* [cols, rows]: its column names and its rows [Peak, Amp], with Peak the   *)
(* 0/1 indicator SCR_Peaks and Amp the float SCR_Amplitude.                 *)

\* rows of the interval table
EdaLen == 2

\* np.inf
PosInf == [k |-> "inf", n |-> 0, d |-> 1]

Amplitudes == {Nan, Num(0, 1), Num(1, 1), Num(2, 1)}

EdaRows == {[Peak |-> p, Amp |-> a] : p \in {0, 1}, a \in Amplitudes}

EdaColumns == SUBSET {"SCR_Peaks", "SCR_Amplitude"}

\* np.sum of the SCR_Peaks column
np_sum_peaks(rows) == SeqSum([i \in 1..Len(rows) |-> rows[i].Peak])

\* np.nansum of the SCR_Amplitude column
np_nansum_amplitude(rows) ==
    Num(SeqSum([i \in 1..Len(rows) |-> IF IsNan(rows[i].Amp) THEN 0 ELSE rows[i].Amp.n]), 1)

\* np.sum of the SCR_Amplitude column
np_sum_amplitude(rows) ==
    IF \E i \in 1..Len(rows) : IsNan(rows[i].Amp) THEN Nan ELSE np_nansum_amplitude(rows)

\* a numpy float divided by a numpy integer
np_true_divide(x, den) ==
    IF IsNan(x) THEN Nan
    ELSE IF den = 0 THEN (IF x.n = 0 THEN Nan ELSE PosInf)
    ELSE Num(x.n, x.d * den)

EdaKeys == {"SCR_Peaks_N", "SCR_Peaks_Amplitude_Mean"}

\* the isinstance(data, pd.DataFrame) branch
eda_intervalrelated_frame(table) ==
    IF "SCR_Peaks" \notin table.cols \/ "SCR_Amplitude" \notin table.cols
    THEN [err |-> "ValueError", val |-> PyNone]
    ELSE [err |-> "none",
          val |-> PyDict([key \in EdaKeys |->
                    IF key = "SCR_Peaks_N" THEN Num(np_sum_peaks(table.rows), 1)
                    ELSE np_true_divide(np_nansum_amplitude(table.rows),
                                        np_sum_peaks(table.rows))])]

\* the isinstance(data, dict) branch on a dict with the one entry table
eda_intervalrelated_formatinput(table) ==
    IF "SCR_Peaks" \notin table.cols \/ "SCR_Amplitude" \notin table.cols
    THEN [err |-> "ValueError", val |-> PyNone]
    ELSE [err |-> "none",
          val |-> PyDict([key \in EdaKeys |->
                    IF key = "SCR_Peaks_N" THEN Num(np_sum_peaks(table.rows), 1)
                    ELSE IF np_sum_peaks(table.rows) = 0 THEN Nan
                    ELSE np_true_divide(np_sum_amplitude(table.rows),
                                        np_sum_peaks(table.rows))])]

InitEda ==
    /\ pc = "eda_frame_call"
    /\ \E c \in EdaColumns, l \in 0..EdaLen :
         \E rows \in [1..l -> EdaRows] : eda_table = [cols |-> c, rows |-> rows]
    /\ eda_frame = PyNone /\ eda_dict = PyNone
    /\ ecg_form = "frame" /\ rsp = <<>> /\ rpeaks = <<>> /\ sampling_rate = 1
    /\ continuous = FALSE /\ window = None /\ window_number = None
    /\ rsp_onsets = <<>> /\ rsp_peaks = <<>> /\ rsa_values = <<>>
    /\ rsa_p2t = PyNone /\ rsa_pb = PyNone /\ rsa_gates = PyNone
    /\ gates_run = "no" /\ multipeak_k = -1 /\ windows_used = <<>>
    /\ rsa = PyNone /\ warnings = {} /\ error = "none"
    /\ pb_epochs = <<>> /\ rsp_cycles = NoKeys /\ peaks_key = "" /\ hrv_out = PyNone
    /\ mp_eigen = <<>> /\ mp_out = PyNone

\* eda_intervalrelated(table)
EdaFrameCall ==
    /\ pc = "eda_frame_call"
    /\ LET res == eda_intervalrelated_frame(eda_table)
       IN  /\ eda_frame' = res.val
           /\ error' = res.err
    /\ pc' = "eda_dict_call"
    /\ UNCHANGED <<pb_epochs, rsp_cycles, peaks_key, hrv_out, mp_eigen, mp_out,
                   eda_table, eda_dict>>
    /\ UNCHANGED <<ecg_form, rsp, rpeaks, sampling_rate, continuous, window, window_number,
                   rsp_onsets, rsp_peaks, rsa_values, rsa_p2t, rsa_pb, rsa_gates, gates_run,
                   multipeak_k, windows_used, rsa, warnings>>

\* eda_intervalrelated({key: table})
EdaDictCall ==
    /\ pc = "eda_dict_call"
    /\ LET res == eda_intervalrelated_formatinput(eda_table)
       IN  /\ eda_dict' = res.val
           /\ error' = res.err
    /\ pc' = "eda_done"
    /\ UNCHANGED <<pb_epochs, rsp_cycles, peaks_key, hrv_out, mp_eigen, mp_out,
                   eda_table, eda_frame>>
    /\ UNCHANGED <<ecg_form, rsp, rpeaks, sampling_rate, continuous, window, window_number,
                   rsp_onsets, rsp_peaks, rsa_values, rsa_p2t, rsa_pb, rsa_gates, gates_run,
                   multipeak_k, windows_used, rsa, warnings>>

NextEda == EdaFrameCall \/ EdaDictCall

SpecEda == InitEda /\ [][NextEda]_vars

\* C17: a table with one SCR_Peaks and one SCR_Amplitude column yields the same
\* SCR_Peaks_N and the same SCR_Peaks_Amplitude_Mean as a DataFrame and as a dict entry.
C17_SameOnBothPaths ==
    (pc = "eda_done" /\ eda_table.cols = {"SCR_Peaks", "SCR_Amplitude"}) =>
        /\ eda_frame.type = "dict"
        /\ eda_dict.type = "dict"
        /\ eda_frame.d["SCR_Peaks_N"] = eda_dict.d["SCR_Peaks_N"]
        /\ eda_frame.d["SCR_Peaks_Amplitude_Mean"] = eda_dict.d["SCR_Peaks_Amplitude_Mean"]

====
